---- MODULE Spec2Model ----
(***************************************************************************)
(* Session lifecycle orchestrator of backend/server.py: the registry of    *)
(* live session handles (active_sessions), the persisted session records   *)
(* (db.auto_typer_sessions), the WebSocket ConnectionManager, the control  *)
(* endpoints (start/stop/pause/resume/retry) and the automation worker     *)
(* (discord_automation), which runs as an asyncio task.                    *)
(*                                                                         *)
(* Scheduling model.  The server is one asyncio event loop: a coroutine    *)
(* runs without interruption from one `await` to the next.  Every action   *)
(* below is one such segment of one handler or of one worker task.  An     *)
(* awaited database write takes effect when it is issued (writes of one    *)
(* process reach the store in program order); an awaited database read of  *)
(* the recovery path is a step of its own.  CancelledError is a            *)
(* BaseException (Python >= 3.8): `except Exception` does not catch it, a  *)
(* bare `except:` does.                                                    *)
(***************************************************************************)
EXTENDS Integers, Sequences, FiniteSets, TLC

\* ---------------------------------------------------------------- bounds
MaxLen == 2
MaxRestarts == 1
MaxTasks == 2

\* ------------------------------------------------------------ identities
Ids == {"s1", "s2"}
Callers == {"c1", "c2"}
Chans == {"w1", "w2"}
TaskIds == 1..MaxTasks
NoId == "-"
NoChan == "-"
NoTask == 0
Letters == <<"A", "B", "C", "D">>

\* the message list of a start request: n texts
Queue(n) == [i \in 1..n |-> Letters[((i - 1) % 4) + 1]]

VARIABLES
    db,          \* db.auto_typer_sessions: id -> persisted record
    live,        \* active_sessions: id -> live handle
    tasks,       \* asyncio tasks running discord_automation
    conn,        \* manager.active_connections: id -> websocket
    chan,        \* the websockets and their endpoint handlers
    call,        \* the control request each caller has in flight
    resp,        \* the response the step just taken returned to a caller
    delivered,   \* what the step just taken sent over a websocket
    hist,        \* history of successful control calls per session (observation only)
    restarts     \* number of process restarts so far

vars == <<db, live, tasks, conn, chan, call, resp, delivered, hist, restarts>>

\* --------------------------------------------------------------- records
\* AutoTyperSession as stored by insert_one(session.dict())
NoRec ==
    [exists |-> FALSE, messages |-> <<>>, status |-> "idle",
     messages_sent |-> 0, messages_failed |-> 0, current_message_index |-> 0,
     failed_messages |-> <<>>, last_error |-> "None", retry_count |-> 0,
     can_resume |-> FALSE,
     paused_at |-> FALSE, resumed_at |-> FALSE]

NewSession(msgs) == [NoRec EXCEPT !.exists = TRUE, !.messages = msgs]

\* A live handle is a dict; `keys` holds which of the optional keys it has.
\* A key that is absent keeps its default value in the record.
NoLive ==
    [exists |-> FALSE, status |-> "idle", messages_sent |-> 0,
     messages_failed |-> 0, current_message_index |-> 0,
     failed_messages |-> <<>>, retry_count |-> 0, can_resume |-> FALSE,
     last_error |-> "None", keys |-> {}, task |-> NoTask]

FreeTask ==
    [pc |-> "free", sid |-> NoId, msgs |-> <<>>, mi |-> 0, mi0 |-> 0,
     browser |-> "none", closes |-> 0, cancel |-> FALSE, ret |-> "in",
     att |-> <<>>, obs |-> FALSE, late |-> FALSE, stopd |-> FALSE, cur0 |-> 0]

NoChanRec == [state |-> "none", sid |-> NoId]

IdleCall == [op |-> "none", id |-> NoId, pc |-> "idle", snap |-> NoRec]

NoResp == [c |-> "-", op |-> "none", id |-> NoId, result |-> "none"]

NoHist == [paused |-> FALSE, resumed |-> FALSE, stopped |-> FALSE]

Statuses == {"idle", "starting", "waiting_for_login", "running", "paused",
             "stopped", "error", "completed"}

\* ---------------------------------------------------------------- helpers
Alive(t) == tasks[t].pc \notin {"free", "done"}

WorkersOf(id) == {t \in TaskIds : tasks[t].sid = id /\ Alive(t)}

HasFreeTask == \E t \in TaskIds : tasks[t].pc = "free"

NextFreeTask == CHOOSE t \in TaskIds : tasks[t].pc = "free" /\ \A u \in TaskIds : tasks[u].pc = "free" => t <= u

\* asyncio.create_task(discord_automation(session_id, session_obj))
NewTask(id, msgs) == [FreeTask EXCEPT !.pc = "created", !.sid = id, !.msgs = msgs]

\* db.auto_typer_sessions.update_one({"id": id}, {"$set": ...}): no upsert
DbSet(id, rec) == IF db[id].exists THEN [db EXCEPT ![id] = rec] ELSE db

\* a hub that sends to whatever websocket is registered
SendDeliversAny(id) == conn[id] # NoChan

\* ConnectionManager.send_message: what reaches the socket, and the
\* registration afterwards (a failed send_json unregisters the session)
SendDelivers(id) == conn[id] # NoChan /\ chan[conn[id]].state = "open"

SendOut(id, type, status) ==
    IF SendDelivers(id)
    THEN <<[ch |-> conn[id], sid |-> id, type |-> type, status |-> status]>>
    ELSE <<>>

SendConn(id) ==
    IF conn[id] # NoChan /\ chan[conn[id]].state # "open"
    THEN [conn EXCEPT ![id] = NoChan]
    ELSE conn

\* get_auto_typer_session_status: the record merged with the live handle
View(id) ==
    IF live[id].exists
    THEN [db[id] EXCEPT !.messages_sent = live[id].messages_sent,
                        !.messages_failed = live[id].messages_failed,
                        !.status = live[id].status]
    ELSE db[id]

CanCall(c) == call[c].pc = "idle"

\* A session id is a uuid made by start: a caller can name it once start has
\* returned it (any other id it sends is one the server does not know).
Addressable(id) == \A c \in Callers : ~(call[c].op = "start" /\ call[c].id = id)

\* the handler returns `res` to its caller
Done(c, op, id, res) ==
    /\ call' = [call EXCEPT ![c] = IdleCall]
    /\ resp' = [c |-> c, op |-> op, id |-> id, result |-> res]

\* the handler is suspended in an await
InFlight(c, op, id, pc) ==
    /\ call' = [call EXCEPT ![c] = [IdleCall EXCEPT !.op = op, !.id = id, !.pc = pc]]
    /\ resp' = NoResp

Init ==
    /\ db = [id \in Ids |-> NoRec]
    /\ live = [id \in Ids |-> NoLive]
    /\ tasks = [t \in TaskIds |-> FreeTask]
    /\ conn = [id \in Ids |-> NoChan]
    /\ chan = [w \in Chans |-> NoChanRec]
    /\ call = [c \in Callers |-> IdleCall]
    /\ resp = NoResp
    /\ delivered = <<>>
    /\ hist = [id \in Ids |-> NoHist]
    /\ restarts = 0

\* ------------------------------------------------- control endpoints
\* POST /auto-typer/start, up to `await insert_one`: the record is stored
\* with the model defaults (status idle, can_resume false).  The id is a
\* fresh uuid: no record has it and no request in flight names it.
StartBegin(c, id, n) ==
    /\ CanCall(c)
    /\ ~db[id].exists
    /\ \A d \in Callers : call[d].id # id
    /\ db' = [db EXCEPT ![id] = NewSession(Queue(n))]
    /\ InFlight(c, "start", id, "insert")
    /\ delivered' = <<>>
    /\ UNCHANGED <<live, tasks, conn, chan, hist, restarts>>

\* start, after the insert: the handle is registered and the task created
StartFinish(c) ==
    LET id == call[c].id
        t == NextFreeTask IN
    /\ call[c].op = "start" /\ call[c].pc = "insert"
    /\ HasFreeTask
    /\ live' = [live EXCEPT ![id] =
                  [NoLive EXCEPT !.exists = TRUE, !.status = "starting", !.task = t]]
    /\ tasks' = [tasks EXCEPT ![t] = NewTask(id, db[id].messages)]
    /\ Done(c, "start", id, "ok")
    /\ delivered' = <<>>
    /\ UNCHANGED <<db, conn, chan, hist, restarts>>

\* Task.cancel(): a request the task sees at its next resumption; no
\* effect on a task that has finished
CancelTask(t) ==
    IF t # NoTask /\ tasks[t].pc \notin {"free", "done"}
    THEN [tasks EXCEPT ![t].cancel = TRUE, ![t].stopd = TRUE]
    ELSE tasks

\* stop that takes the handle out of the registry
StopCallRemoves(c, id) ==
    /\ CanCall(c) /\ Addressable(id)
    /\ delivered' = <<>>
    /\ IF live[id].exists
       THEN /\ live' = [live EXCEPT ![id] = NoLive]
            /\ tasks' = CancelTask(live[id].task)
            /\ db' = DbSet(id, [db[id] EXCEPT !.status = "stopped"])
            /\ hist' = [hist EXCEPT ![id].stopped = TRUE]
            /\ Done(c, "stop", id, "ok")
            /\ UNCHANGED <<conn, chan, restarts>>
       ELSE /\ Done(c, "stop", id, "not_found")
            /\ UNCHANGED <<db, live, tasks, conn, chan, hist, restarts>>

\* POST /auto-typer/{id}/stop
StopCall(c, id) ==
    /\ CanCall(c) /\ Addressable(id)
    /\ delivered' = <<>>
    /\ IF live[id].exists
       THEN /\ live' = [live EXCEPT ![id].status = "stopped"]
            /\ tasks' = CancelTask(live[id].task)
            /\ db' = DbSet(id, [db[id] EXCEPT !.status = "stopped"])
            /\ hist' = [hist EXCEPT ![id].stopped = TRUE]
            /\ Done(c, "stop", id, "ok")
            /\ UNCHANGED <<conn, chan, restarts>>
       ELSE /\ Done(c, "stop", id, "not_found")
            /\ UNCHANGED <<db, live, tasks, conn, chan, hist, restarts>>

\* pause that writes a status of its own
PauseDbHalted(id) == [db[id] EXCEPT !.status = "halted", !.can_resume = TRUE, !.paused_at = TRUE]

\* pause that forgets can_resume / forgets the timestamp
PauseDbNoResume(id) == [db[id] EXCEPT !.status = "paused", !.paused_at = TRUE]

PauseDbNoStamp(id) == [db[id] EXCEPT !.status = "paused", !.can_resume = TRUE]

\* the record as the pause endpoint writes it
PauseDb(id) == [db[id] EXCEPT !.status = "paused", !.can_resume = TRUE, !.paused_at = TRUE]

\* pause that marks the handle only after its write has been awaited
PauseBeginLate(c, id) ==
    /\ CanCall(c) /\ Addressable(id)
    /\ delivered' = <<>>
    /\ IF ~live[id].exists
       THEN /\ Done(c, "pause", id, "not_found")
            /\ UNCHANGED <<db, live, tasks, conn, chan, hist, restarts>>
       ELSE IF live[id].status = "running"
       THEN /\ db' = DbSet(id, PauseDb(id))
            /\ hist' = [hist EXCEPT ![id].paused = TRUE]
            /\ InFlight(c, "pause", id, "notify")
            /\ UNCHANGED <<live, tasks, conn, chan, restarts>>
       ELSE /\ Done(c, "pause", id, "not_running")
            /\ UNCHANGED <<db, live, tasks, conn, chan, hist, restarts>>

\* POST /auto-typer/{id}/pause, up to `await update_one`
PauseBegin(c, id) ==
    /\ CanCall(c) /\ Addressable(id)
    /\ delivered' = <<>>
    /\ IF ~live[id].exists
       THEN /\ Done(c, "pause", id, "not_found")
            /\ UNCHANGED <<db, live, tasks, conn, chan, hist, restarts>>
       ELSE IF live[id].status = "running"
       THEN /\ live' = [live EXCEPT ![id].status = "paused"]
            /\ db' = DbSet(id, PauseDb(id))
            /\ hist' = [hist EXCEPT ![id].paused = TRUE]
            /\ InFlight(c, "pause", id, "notify")
            /\ UNCHANGED <<tasks, conn, chan, restarts>>
       ELSE /\ Done(c, "pause", id, "not_running")
            /\ UNCHANGED <<db, live, tasks, conn, chan, hist, restarts>>

\* pause, after the write: broadcast_session_update, then the response
PauseNotify(c) ==
    LET id == call[c].id IN
    /\ call[c].op = "pause" /\ call[c].pc = "notify"
    /\ delivered' = SendOut(id, "session_update", "paused")
    /\ conn' = SendConn(id)
    /\ Done(c, "pause", id, "ok")
    /\ UNCHANGED <<db, live, tasks, chan, hist, restarts>>

\* resume that forgets the timestamp
ResumeDbNoStamp(id) == [db[id] EXCEPT !.status = "running"]

\* the record as the resume endpoint writes it for a live paused session
ResumeDb(id) == [db[id] EXCEPT !.status = "running", !.resumed_at = TRUE]

\* POST /auto-typer/{id}/resume, up to its first await
ResumeBegin(c, id) ==
    /\ CanCall(c) /\ Addressable(id)
    /\ delivered' = <<>>
    /\ hist' = [hist EXCEPT ![id].resumed = hist[id].resumed \/ hist[id].paused]
    /\ IF live[id].exists
       THEN IF live[id].status = "paused"
            THEN /\ live' = [live EXCEPT ![id].status = "running"]
                 /\ db' = DbSet(id, ResumeDb(id))
                 /\ InFlight(c, "resume", id, "notify")
                 /\ UNCHANGED <<tasks, conn, chan, restarts>>
            ELSE /\ Done(c, "resume", id, "not_paused")
                 /\ UNCHANGED <<db, live, tasks, conn, chan, restarts>>
       ELSE /\ InFlight(c, "resume", id, "find")
            /\ UNCHANGED <<db, live, tasks, conn, chan, restarts>>

\* resume of a live session, after the write: broadcast, then the response
ResumeNotify(c) ==
    LET id == call[c].id IN
    /\ call[c].op = "resume" /\ call[c].pc = "notify"
    /\ delivered' = SendOut(id, "session_update", "running")
    /\ conn' = SendConn(id)
    /\ Done(c, "resume", id, "ok")
    /\ UNCHANGED <<db, live, tasks, chan, hist, restarts>>

\* resume without a live handle: find_one reads the record
ResumeRead(c) ==
    /\ call[c].op = "resume" /\ call[c].pc = "find"
    /\ call' = [call EXCEPT ![c].pc = "found", ![c].snap = db[call[c].id]]
    /\ resp' = NoResp
    /\ delivered' = <<>>
    /\ UNCHANGED <<db, live, tasks, conn, chan, hist, restarts>>

\* recovery that starts again from the first message
RecoveredHandleFromZero(rec, t) ==
    [NoLive EXCEPT !.exists = TRUE, !.status = "running",
                   !.messages_sent = rec.messages_sent,
                   !.messages_failed = rec.messages_failed,
                   !.failed_messages = rec.failed_messages,
                   !.retry_count = rec.retry_count,
                   !.keys = {"current_message_index", "retry_count"},
                   !.task = t]

\* the handle the recovery path builds from the record it read
RecoveredHandle(rec, t) ==
    [NoLive EXCEPT !.exists = TRUE, !.status = "running",
                   !.messages_sent = rec.messages_sent,
                   !.messages_failed = rec.messages_failed,
                   !.current_message_index = rec.current_message_index,
                   !.failed_messages = rec.failed_messages,
                   !.retry_count = rec.retry_count,
                   !.keys = {"current_message_index", "retry_count"},
                   !.task = t]

\* resume without a live handle, after find_one returned
ResumeFinish(c) ==
    LET id == call[c].id
        rec == call[c].snap
        t == NextFreeTask IN
    /\ call[c].op = "resume" /\ call[c].pc = "found"
    /\ delivered' = <<>>
    /\ IF rec.exists /\ rec.can_resume
       THEN /\ HasFreeTask
            /\ live' = [live EXCEPT ![id] = RecoveredHandle(rec, t)]
            /\ tasks' = [tasks EXCEPT ![t] =
                   [NewTask(id, rec.messages) EXCEPT !.cur0 = rec.current_message_index]]
            /\ Done(c, "resume", id, "ok")
            /\ UNCHANGED <<db, conn, chan, hist, restarts>>
       ELSE /\ Done(c, "resume", id, "not_resumable")
            /\ UNCHANGED <<db, live, tasks, conn, chan, hist, restarts>>

\* retry that also resets the failure counter
RetryBeginResets(c, id) ==
    /\ CanCall(c) /\ Addressable(id)
    /\ delivered' = <<>>
    /\ IF ~live[id].exists
       THEN /\ Done(c, "retry", id, "not_found")
            /\ UNCHANGED <<db, live, tasks, conn, chan, hist, restarts>>
       ELSE IF live[id].failed_messages = <<>>
       THEN /\ Done(c, "retry", id, "no_failed")
            /\ UNCHANGED <<db, live, tasks, conn, chan, hist, restarts>>
       ELSE IF "retry_count" \notin live[id].keys
       THEN /\ live' = [live EXCEPT ![id].failed_messages = <<>>,
                                    ![id].messages_failed = 0]
            /\ Done(c, "retry", id, "exception")
            /\ UNCHANGED <<db, tasks, conn, chan, hist, restarts>>
       ELSE /\ live' = [live EXCEPT ![id].failed_messages = <<>>,
                                    ![id].messages_failed = 0,
                                    ![id].retry_count = live[id].retry_count + 1]
            /\ db' = DbSet(id, [db[id] EXCEPT !.retry_count = live[id].retry_count + 1,
                                              !.failed_messages = <<>>])
            /\ InFlight(c, "retry", id, "notify")
            /\ UNCHANGED <<tasks, conn, chan, hist, restarts>>

\* retry that counts the attempt before it looks at the log
RetryBeginEager(c, id) ==
    /\ CanCall(c) /\ Addressable(id)
    /\ delivered' = <<>>
    /\ IF ~live[id].exists
       THEN /\ Done(c, "retry", id, "not_found")
            /\ UNCHANGED <<db, live, tasks, conn, chan, hist, restarts>>
       ELSE /\ live' = [live EXCEPT ![id].failed_messages = <<>>,
                                    ![id].retry_count = live[id].retry_count + 1]
            /\ IF live[id].failed_messages = <<>>
               THEN Done(c, "retry", id, "no_failed")
               ELSE InFlight(c, "retry", id, "notify")
            /\ db' = DbSet(id, [db[id] EXCEPT !.retry_count = live[id].retry_count + 1,
                                              !.failed_messages = <<>>])
            /\ UNCHANGED <<tasks, conn, chan, hist, restarts>>

\* POST /auto-typer/{id}/retry, up to `await update_one`.  The log is
\* cleared before retry_count is incremented; the increment raises KeyError
\* on a handle that has no retry_count key.
RetryBegin(c, id) ==
    /\ CanCall(c) /\ Addressable(id)
    /\ delivered' = <<>>
    /\ IF ~live[id].exists
       THEN /\ Done(c, "retry", id, "not_found")
            /\ UNCHANGED <<db, live, tasks, conn, chan, hist, restarts>>
       ELSE IF live[id].failed_messages = <<>>
       THEN /\ Done(c, "retry", id, "no_failed")
            /\ UNCHANGED <<db, live, tasks, conn, chan, hist, restarts>>
       ELSE IF "retry_count" \notin live[id].keys
       THEN /\ live' = [live EXCEPT ![id].failed_messages = <<>>]
            /\ Done(c, "retry", id, "exception")
            /\ UNCHANGED <<db, tasks, conn, chan, hist, restarts>>
       ELSE /\ live' = [live EXCEPT ![id].failed_messages = <<>>,
                                    ![id].retry_count = live[id].retry_count + 1]
            /\ db' = DbSet(id, [db[id] EXCEPT !.retry_count = live[id].retry_count + 1,
                                              !.failed_messages = <<>>])
            /\ InFlight(c, "retry", id, "notify")
            /\ UNCHANGED <<tasks, conn, chan, hist, restarts>>

\* retry, after the write: the retry_initiated event, then the response
RetryNotify(c) ==
    LET id == call[c].id IN
    /\ call[c].op = "retry" /\ call[c].pc = "notify"
    /\ delivered' = SendOut(id, "retry_initiated", "-")
    /\ conn' = SendConn(id)
    /\ Done(c, "retry", id, "ok")
    /\ UNCHANGED <<db, live, tasks, chan, hist, restarts>>

\* a status query that returns the record as stored
MergeNone(rec, id) == rec

\* get_auto_typer_session_status: the record it read, with status and
\* counters taken from the live handle when there is one
Merge(rec, id) ==
    IF live[id].exists
    THEN [rec EXCEPT !.messages_sent = live[id].messages_sent,
                     !.messages_failed = live[id].messages_failed,
                     !.status = live[id].status]
    ELSE rec

\* GET /auto-typer/{id}/status, up to `await find_one`
StatusBegin(c, id) ==
    /\ CanCall(c) /\ Addressable(id)
    /\ InFlight(c, "status", id, "find")
    /\ delivered' = <<>>
    /\ UNCHANGED <<db, live, tasks, conn, chan, hist, restarts>>

\* find_one reads the record
StatusRead(c) ==
    /\ call[c].op = "status" /\ call[c].pc = "find"
    /\ call' = [call EXCEPT ![c].pc = "found", ![c].snap = db[call[c].id]]
    /\ resp' = NoResp
    /\ delivered' = <<>>
    /\ UNCHANGED <<db, live, tasks, conn, chan, hist, restarts>>

\* status, after find_one returned: not found, or the merged document, which
\* the caller then holds (kept in `snap` of the idle call)
StatusFinish(c) ==
    LET id == call[c].id
        rec == call[c].snap IN
    /\ call[c].op = "status" /\ call[c].pc = "found"
    /\ delivered' = <<>>
    /\ IF rec.exists
       THEN /\ call' = [call EXCEPT ![c] = [IdleCall EXCEPT !.snap = Merge(rec, id)]]
            /\ resp' = [c |-> c, op |-> "status", id |-> id, result |-> "ok"]
       ELSE Done(c, "status", id, "not_found")
    /\ UNCHANGED <<db, live, tasks, conn, chan, hist, restarts>>

\* an update whose status reaches every handle
LiveSetAll(id, rec) ==
    IF live[id].exists
    THEN [j \in Ids |-> IF j = id THEN rec
                        ELSE IF live[j].exists THEN [live[j] EXCEPT !.status = rec.status]
                        ELSE live[j]]
    ELSE live

\* ------------------------------------------------- automation worker
\* update_session_status applied to the handle / to the record
\* (the `if session_id in active_sessions` test guards both)
LiveSet(id, rec) == IF live[id].exists THEN [live EXCEPT ![id] = rec] ELSE live

DbUpd(id, rec) == IF live[id].exists THEN DbSet(id, rec) ELSE db

\* handle_session_error(session_id, msg, can_retry=True), up to the await of
\* the database write in update_session_status
ErrorLive(id, msg) ==
    [live[id] EXCEPT !.status = "error", !.last_error = msg, !.can_resume = TRUE,
                     !.keys = @ \cup {"retry_count", "can_resume"}]

\* an error record that does not mark the session resumable
ErrorDbNoResume(id, msg) ==
    [db[id] EXCEPT !.status = "error", !.last_error = msg,
                   !.retry_count = live[id].retry_count]

ErrorDb(id, msg) ==
    [db[id] EXCEPT !.status = "error", !.last_error = msg, !.can_resume = TRUE,
                   !.retry_count = live[id].retry_count]

\* a worker that closes its browser unless an exception ended it
FinallyUnlessFailed(r) ==
    IF r.browser # "none" /\ r.ret = "in"
    THEN [r EXCEPT !.pc = "closing", !.browser = "closed", !.closes = @ + 1]
    ELSE [r EXCEPT !.pc = "done"]

\* a worker that leaves without closing its browser
FinallyLeak(r) == [r EXCEPT !.pc = "done"]

\* the `finally:` clause: close the browser if one was launched
Finally(r) ==
    IF r.browser # "none"
    THEN [r EXCEPT !.pc = "closing", !.browser = "closed", !.closes = @ + 1]
    ELSE [r EXCEPT !.pc = "done"]

\* a loop that looks at the cursor only
LoopGoesWhatever(r) == r.mi < Len(r.msgs)

\* the head of the `while` loop followed by the body up to its first await,
\* or by the statement after the loop
LoopGoes(r) == live[r.sid].status = "running" /\ r.mi < Len(r.msgs)

LoopTask(r) ==
    IF LoopGoes(r)
    THEN [r EXCEPT !.pc = "cur_db", !.att = Append(@, r.mi),
                   !.late = @ \/ r.obs]
    ELSE [r EXCEPT !.pc = "comp_db", !.obs = @ \/ live[r.sid].status = "stopped"]

LoopLive(r) ==
    IF LoopGoes(r)
    THEN [live[r.sid] EXCEPT !.current_message_index = r.mi,
                             !.keys = @ \cup {"current_message_index"}]
    ELSE [live[r.sid] EXCEPT !.status = "completed"]

\* a loop that records the index before the one it attempts
LoopDbBehind(r) ==
    IF LoopGoes(r)
    THEN [db[r.sid] EXCEPT !.current_message_index = r.mi - 1]
    ELSE [db[r.sid] EXCEPT !.status = "completed"]

LoopDb(r) ==
    IF LoopGoes(r)
    THEN [db[r.sid] EXCEPT !.current_message_index = r.mi]
    ELSE [db[r.sid] EXCEPT !.status = "completed"]

\* a message failure that ends the session
FailLiveAborts(r) ==
    [live[r.sid] EXCEPT !.status = "error", !.messages_failed = @ + 1,
                        !.failed_messages = Append(@, [message |-> r.msgs[r.mi + 1], index |-> r.mi])]

\* a failure that is logged and not counted
FailLiveUncounted(r) ==
    [live[r.sid] EXCEPT !.failed_messages = Append(@, [message |-> r.msgs[r.mi + 1], index |-> r.mi])]

\* handle_message_failure, up to the await of the database write
FailLive(r) ==
    [live[r.sid] EXCEPT !.messages_failed = @ + 1,
                        !.failed_messages = Append(@, [message |-> r.msgs[r.mi + 1], index |-> r.mi])]

FailDb(r) ==
    [db[r.sid] EXCEPT !.messages_failed = live[r.sid].messages_failed + 1]

Quiet == delivered' = <<>> /\ resp' = NoResp /\ UNCHANGED <<conn, chan, call, hist, restarts>>

\* the task's first step: into the try block, async_playwright() and launch
WBegin(t) ==
    /\ tasks[t].pc = "created" /\ ~tasks[t].cancel
    /\ tasks' = [tasks EXCEPT ![t].pc = "launch"]
    /\ Quiet /\ UNCHANGED <<db, live>>

\* chromium.launch returned (the browser is held from here on) or raised
WLaunch(t) ==
    /\ tasks[t].pc = "launch" /\ ~tasks[t].cancel
    /\ \/ tasks' = [tasks EXCEPT ![t].pc = "goto_home", ![t].browser = "open"]
       \/ tasks' = [tasks EXCEPT ![t].pc = "exc_exit"]
    /\ Quiet /\ UNCHANGED <<db, live>>

\* new_context / new_page / goto(@me) returned: status waiting_for_login
WGotoHome(t) ==
    LET r == tasks[t] id == r.sid IN
    /\ r.pc = "goto_home" /\ ~r.cancel
    /\ \/ /\ tasks' = [tasks EXCEPT ![t].pc = "wfl_db"]
          /\ live' = LiveSet(id, [live[id] EXCEPT !.status = "waiting_for_login"])
          /\ db' = DbUpd(id, [db[id] EXCEPT !.status = "waiting_for_login"])
       \/ /\ tasks' = [tasks EXCEPT ![t].pc = "exc_exit"]
          /\ UNCHANGED <<db, live>>
    /\ Quiet

\* update_one raises in update_session_status (the write may have reached the
\* store): the exception leaves the `async with` block
WDbError(t) ==
    /\ tasks[t].pc \in {"wfl_db", "run_db", "cur_db", "succ_db", "fail_db", "comp_db"}
    /\ ~tasks[t].cancel
    /\ tasks' = [tasks EXCEPT ![t].pc = "exc_exit"]
    /\ Quiet /\ UNCHANGED <<db, live>>

\* update_session_status after its database write: broadcast_session_update
BroadcastStatus(pc) ==
    CASE pc = "wfl_db" -> "waiting_for_login"
      [] pc = "run_db" -> "running"
      [] pc = "comp_db" -> "completed"
      [] pc = "err_db" -> "error"
      [] OTHER -> "-"

AfterDb(pc) ==
    CASE pc = "wfl_db" -> "wfl_ws"
      [] pc = "run_db" -> "run_ws"
      [] pc = "cur_db" -> "cur_ws"
      [] pc = "succ_db" -> "succ_ws"
      [] pc = "fail_db" -> "fail_ws"
      [] pc = "comp_db" -> "comp_ws"
      [] pc = "err_db" -> "err_ws"

DbPcs == {"wfl_db", "run_db", "cur_db", "succ_db", "fail_db", "comp_db", "err_db"}

WBroadcast(t) ==
    LET r == tasks[t] id == r.sid IN
    /\ r.pc \in DbPcs /\ ~r.cancel
    /\ delivered' = IF live[id].exists THEN SendOut(id, "session_update", BroadcastStatus(r.pc)) ELSE <<>>
    /\ conn' = IF live[id].exists THEN SendConn(id) ELSE conn
    /\ tasks' = [tasks EXCEPT ![t].pc = AfterDb(r.pc)]
    /\ resp' = NoResp /\ UNCHANGED <<db, live, chan, call, hist, restarts>>

\* wait_for_selector('[data-list-id="channels"]') is issued
WWaitLogin(t) ==
    /\ tasks[t].pc = "wfl_ws" /\ ~tasks[t].cancel
    /\ tasks' = [tasks EXCEPT ![t].pc = "login_wait"]
    /\ Quiet /\ UNCHANGED <<db, live>>

\* the login wait returned, or raised into the bare `except:`
WLoginDone(t) ==
    LET r == tasks[t] id == r.sid IN
    /\ r.pc = "login_wait" /\ ~r.cancel
    /\ \/ /\ tasks' = [tasks EXCEPT ![t].pc = "goto_chan"]
          /\ UNCHANGED <<db, live>>
       \/ /\ tasks' = [tasks EXCEPT ![t].pc = "err_db", ![t].ret = "in"]
          /\ live' = LiveSet(id, ErrorLive(id, "login_timeout"))
          /\ db' = DbUpd(id, ErrorDb(id, "login_timeout"))
    /\ Quiet

\* goto(channel_url) returned or raised
WGotoChan(t) ==
    /\ tasks[t].pc = "goto_chan" /\ ~tasks[t].cancel
    /\ \/ tasks' = [tasks EXCEPT ![t].pc = "input_wait"]
       \/ tasks' = [tasks EXCEPT ![t].pc = "exc_exit"]
    /\ Quiet /\ UNCHANGED <<db, live>>

\* the wait for the message input returned (status running), or raised into
\* the bare `except:`
WInputReady(t) ==
    LET r == tasks[t] id == r.sid IN
    /\ r.pc = "input_wait" /\ ~r.cancel
    /\ \/ /\ tasks' = [tasks EXCEPT ![t].pc = "run_db"]
          /\ live' = LiveSet(id, [live[id] EXCEPT !.status = "running"])
          /\ db' = DbUpd(id, [db[id] EXCEPT !.status = "running"])
       \/ /\ tasks' = [tasks EXCEPT ![t].pc = "err_db", ![t].ret = "in"]
          /\ live' = LiveSet(id, ErrorLive(id, "no_input"))
          /\ db' = DbUpd(id, ErrorDb(id, "no_input"))
    /\ Quiet

\* message_index = handle.get('current_message_index', 0), then the loop head
WEnterLoop(t) ==
    LET id == tasks[t].sid
        r == [tasks[t] EXCEPT !.mi = live[id].current_message_index,
                              !.mi0 = live[id].current_message_index] IN
    /\ tasks[t].pc = "run_ws" /\ ~tasks[t].cancel
    /\ tasks' = [tasks EXCEPT ![t] = LoopTask(r)]
    /\ live' = LiveSet(id, LoopLive(r))
    /\ db' = DbUpd(id, LoopDb(r))
    /\ Quiet

\* send_message_with_typing is entered: wait for the input, click, type
WType(t) ==
    /\ tasks[t].pc = "cur_ws" /\ ~tasks[t].cancel
    /\ tasks' = [tasks EXCEPT ![t].pc = "typing", ![t].late = @ \/ tasks[t].obs]
    /\ Quiet /\ UNCHANGED <<db, live>>

\* the text is typed (typing_update sent) and Enter is issued, or an
\* exception made send_message_with_typing return False
WTyped(t) ==
    LET r == tasks[t] id == r.sid IN
    /\ r.pc = "typing" /\ ~r.cancel
    /\ \/ /\ tasks' = [tasks EXCEPT ![t].pc = "enter", ![t].late = @ \/ r.obs]
          /\ delivered' = SendOut(id, "typing_update", "-")
          /\ conn' = SendConn(id)
          /\ UNCHANGED <<db, live>>
       \/ /\ tasks' = [tasks EXCEPT ![t].pc = "fail_db"]
          /\ live' = LiveSet(id, FailLive(r))
          /\ db' = DbUpd(id, FailDb(r))
          /\ delivered' = <<>>
          /\ UNCHANGED conn
    /\ resp' = NoResp /\ UNCHANGED <<chan, call, hist, restarts>>

\* keyboard.press('Enter') returned (messages_sent += 1) or raised
WEntered(t) ==
    LET r == tasks[t] id == r.sid IN
    /\ r.pc = "enter" /\ ~r.cancel
    /\ \/ /\ tasks' = [tasks EXCEPT ![t].pc = "succ_db"]
          /\ live' = LiveSet(id, [live[id] EXCEPT !.messages_sent = @ + 1])
          /\ db' = DbUpd(id, [db[id] EXCEPT !.messages_sent = live[id].messages_sent + 1])
       \/ /\ tasks' = [tasks EXCEPT ![t].pc = "fail_db"]
          /\ live' = LiveSet(id, FailLive(r))
          /\ db' = DbUpd(id, FailDb(r))
    /\ Quiet

\* send_error_notification after a failed message or a session error
WNotifyError(t) ==
    LET r == tasks[t] id == r.sid IN
    /\ r.pc \in {"fail_ws", "err_ws"} /\ ~r.cancel
    /\ delivered' = SendOut(id, "error_notification", "-")
    /\ conn' = SendConn(id)
    /\ tasks' = [tasks EXCEPT ![t].pc = IF r.pc = "fail_ws" THEN "fail_note" ELSE "err_note"]
    /\ resp' = NoResp /\ UNCHANGED <<db, live, chan, call, hist, restarts>>

\* asyncio.sleep(message_delay / 1000) is issued
WSleep(t) ==
    /\ tasks[t].pc \in {"succ_ws", "fail_note"} /\ ~tasks[t].cancel
    /\ tasks' = [tasks EXCEPT ![t].pc = "sleep"]
    /\ Quiet /\ UNCHANGED <<db, live>>

\* a loop that goes round without advancing its index
WNextStays(t) ==
    LET id == tasks[t].sid
        r == tasks[t] IN
    /\ tasks[t].pc = "sleep" /\ ~tasks[t].cancel
    /\ tasks' = [tasks EXCEPT ![t] = LoopTask(r)]
    /\ live' = LiveSet(id, LoopLive(r))
    /\ db' = DbUpd(id, LoopDb(r))
    /\ Quiet

\* the sleep is over: message_index += 1, then the loop head
WNext(t) ==
    LET id == tasks[t].sid
        r == [tasks[t] EXCEPT !.mi = @ + 1] IN
    /\ tasks[t].pc = "sleep" /\ ~tasks[t].cancel
    /\ tasks' = [tasks EXCEPT ![t] = LoopTask(r)]
    /\ live' = LiveSet(id, LoopLive(r))
    /\ db' = DbUpd(id, LoopDb(r))
    /\ Quiet

\* the `async with` block is left normally or by `return`
WLeave(t) ==
    LET r == tasks[t] IN
    /\ ~r.cancel
    /\ \/ r.pc = "comp_ws"
       \/ r.pc = "err_note" /\ r.ret = "in"
    /\ tasks' = [tasks EXCEPT ![t].pc = "ret_exit"]
    /\ Quiet /\ UNCHANGED <<db, live>>

\* async_playwright().__aexit__ returned: the `except Exception` handler
\* when an exception is in flight, then the `finally:` clause
WExit(t) ==
    LET r == tasks[t] id == r.sid IN
    /\ ~r.cancel
    /\ \/ /\ r.pc \in {"ret_exit", "can_exit"}
          /\ tasks' = [tasks EXCEPT ![t] = Finally(r)]
          /\ UNCHANGED <<db, live>>
       \/ /\ r.pc = "exc_exit"
          /\ tasks' = [tasks EXCEPT ![t].pc = "err_db", ![t].ret = "out"]
          /\ live' = LiveSet(id, ErrorLive(id, "exception"))
          /\ db' = DbUpd(id, ErrorDb(id, "exception"))
    /\ Quiet

\* the `except Exception` handler is done: the `finally:` clause
WHandled(t) ==
    LET r == tasks[t] IN
    /\ r.pc = "err_note" /\ r.ret = "out" /\ ~r.cancel
    /\ tasks' = [tasks EXCEPT ![t] = Finally(r)]
    /\ Quiet /\ UNCHANGED <<db, live>>

\* a browser.close() that never returns
WClosedHangs(t) ==
    /\ tasks[t].pc = "closing" /\ ~tasks[t].cancel
    /\ tasks' = [tasks EXCEPT ![t].pc = "closing"]
    /\ Quiet /\ UNCHANGED <<db, live>>

\* browser.close() returned or raised: the task ends
WClosed(t) ==
    /\ tasks[t].pc = "closing" /\ ~tasks[t].cancel
    /\ tasks' = [tasks EXCEPT ![t].pc = "done"]
    /\ Quiet /\ UNCHANGED <<db, live>>

\* The task resumes with CancelledError at the await it was suspended in.
\* The bare `except:` of the login wait and of the input wait catch it and
\* call handle_session_error; the bare `except:` around browser.close()
\* swallows it; `except Exception` lets it through to `finally:`.
InsideExcept(r) == r.pc \in {"err_db", "err_ws", "err_note"} /\ r.ret = "out"

WCancelled(t) ==
    LET r == [tasks[t] EXCEPT !.cancel = FALSE, !.obs = TRUE] id == r.sid IN
    /\ tasks[t].cancel /\ Alive(t)
    /\ IF r.pc \in {"login_wait", "input_wait"}
       THEN /\ tasks' = [tasks EXCEPT ![t] = [r EXCEPT !.pc = "err_db", !.ret = "in"]]
            /\ live' = LiveSet(id, ErrorLive(id, IF r.pc = "login_wait" THEN "login_timeout" ELSE "no_input"))
            /\ db' = DbUpd(id, ErrorDb(id, IF r.pc = "login_wait" THEN "login_timeout" ELSE "no_input"))
       ELSE /\ tasks' = [tasks EXCEPT ![t] =
                   IF r.pc \in {"created", "closing"} THEN [r EXCEPT !.pc = "done"]
                   ELSE IF r.pc \in {"ret_exit", "can_exit", "exc_exit"} \/ InsideExcept(r)
                   THEN Finally(r)
                   ELSE [r EXCEPT !.pc = "can_exit"]]
            /\ UNCHANGED <<db, live>>
    /\ Quiet

\* ------------------------------------------------- websocket endpoint
\* a connect that keeps the channel already registered for the id
WsConnectKeeps(w, id) ==
    LET r == IF conn[id] = NoChan THEN w ELSE conn[id] IN
    /\ chan[w].state = "none"
    /\ chan' = [chan EXCEPT ![w] = [state |-> "open", sid |-> id]]
    /\ conn' = [conn EXCEPT ![id] = r]
    /\ delivered' = <<[ch |-> r, sid |-> id, type |-> "connection_established", status |-> "-"]>>
    /\ resp' = NoResp /\ UNCHANGED <<db, live, tasks, call, hist, restarts>>

\* /ws/{session_id}: accept, register, send connection_established
WsConnect(w, id) ==
    /\ chan[w].state = "none"
    /\ chan' = [chan EXCEPT ![w] = [state |-> "open", sid |-> id]]
    /\ conn' = [conn EXCEPT ![id] = w]
    /\ delivered' = <<[ch |-> w, sid |-> id, type |-> "connection_established", status |-> "-"]>>
    /\ resp' = NoResp /\ UNCHANGED <<db, live, tasks, call, hist, restarts>>

\* the client sends {action: ping}: send_message(session_id, pong)
WsPing(w) ==
    LET id == chan[w].sid IN
    /\ chan[w].state = "open"
    /\ delivered' = SendOut(id, "pong", "-")
    /\ conn' = SendConn(id)
    /\ resp' = NoResp /\ UNCHANGED <<db, live, tasks, chan, call, hist, restarts>>

\* the client goes away; the endpoint has not yet seen it
WsClientClose(w) ==
    /\ chan[w].state = "open"
    /\ chan' = [chan EXCEPT ![w].state = "closed"]
    /\ delivered' = <<>>
    /\ resp' = NoResp /\ UNCHANGED <<db, live, tasks, conn, call, hist, restarts>>

\* receive_json raises WebSocketDisconnect: manager.disconnect(session_id)
WsHandlerExit(w) ==
    /\ chan[w].state = "closed"
    /\ chan' = [chan EXCEPT ![w] = NoChanRec]
    /\ conn' = [conn EXCEPT ![chan[w].sid] = NoChan]
    /\ delivered' = <<>>
    /\ resp' = NoResp /\ UNCHANGED <<db, live, tasks, call, hist, restarts>>

\* ------------------------------------------------- process restart
\* The server process is restarted: everything in memory is gone, the
\* database stays.
Restart ==
    /\ restarts < MaxRestarts
    /\ \E id \in Ids : db[id].exists
    /\ restarts' = restarts + 1
    /\ live' = [id \in Ids |-> NoLive]
    /\ tasks' = [t \in TaskIds |-> FreeTask]
    /\ conn' = [id \in Ids |-> NoChan]
    /\ chan' = [w \in Chans |-> NoChanRec]
    /\ call' = [c \in Callers |-> IdleCall]
    /\ resp' = NoResp
    /\ hist' = [id \in Ids |-> NoHist]
    /\ delivered' = <<>>
    /\ UNCHANGED db

\* ------------------------------------------------- specification
Control(I, C) ==
    \E c \in C :
        \/ \E id \in I, n \in 0..MaxLen : StartBegin(c, id, n)
        \/ StartFinish(c)
        \/ \E id \in I : StopCall(c, id)
        \/ \E id \in I : PauseBegin(c, id)
        \/ PauseNotify(c)
        \/ \E id \in I : ResumeBegin(c, id)
        \/ ResumeNotify(c)
        \/ ResumeRead(c)
        \/ ResumeFinish(c)
        \/ \E id \in I : RetryBegin(c, id)
        \/ RetryNotify(c)

\* a task resumes from the await it was suspended in
Resumes(t) ==
    \/ WBegin(t) \/ WLaunch(t) \/ WGotoHome(t) \/ WBroadcast(t)
    \/ WWaitLogin(t) \/ WLoginDone(t) \/ WGotoChan(t) \/ WInputReady(t)
    \/ WEnterLoop(t) \/ WType(t) \/ WTyped(t) \/ WEntered(t)
    \/ WNotifyError(t) \/ WSleep(t) \/ WNext(t) \/ WLeave(t)
    \/ WExit(t) \/ WHandled(t) \/ WClosed(t) \/ WDbError(t)

Worker == \E t \in TaskIds : Resumes(t) \/ WCancelled(t)

\* the workers where no request cancels a task
WorkerUncancelled == \E t \in TaskIds : Resumes(t)

Socket(I, W) ==
    \E w \in W :
        \/ \E id \in I : WsConnect(w, id)
        \/ WsPing(w) \/ WsClientClose(w) \/ WsHandlerExit(w)

\* one session, one caller at a time, one websocket
Next == Control({"s1"}, {"c1"}) \/ Worker \/ Socket({"s1"}, {"w1"})

Spec == Init /\ [][Next]_vars

\* the recovery path: start and resume requests of callers that overlap
Recovery(I, C) ==
    \E c \in C :
        \/ \E id \in I : StartBegin(c, id, 1)
        \/ StartFinish(c)
        \/ \E id \in I : ResumeBegin(c, id)
        \/ ResumeRead(c)
        \/ ResumeFinish(c)

\* one session, two callers, process restarts, no stop request
NextR == Recovery({"s1"}, Callers) \/ WorkerUncancelled \/ Restart

SpecR == Init /\ [][NextR]_vars

\* one session, one caller at a time, process restarts
NextS == Control({"s1"}, {"c1"}) \/ Worker \/ Restart

SpecS == Init /\ [][NextS]_vars

\* the status query
Query(I, C) ==
    \E c \in C :
        \/ \E id \in I : StatusBegin(c, id)
        \/ StatusRead(c)
        \/ StatusFinish(c)

\* one session, one caller at a time, with status queries
NextQ == Control({"s1"}, {"c1"}) \/ Query({"s1"}, {"c1"}) \/ Worker

SpecQ == Init /\ [][NextQ]_vars

\* start, pause and resume requests of callers that overlap
Concurrent(I, C) ==
    \E c \in C :
        \/ \E id \in I : StartBegin(c, id, 1)
        \/ StartFinish(c)
        \/ \E id \in I : PauseBegin(c, id)
        \/ PauseNotify(c)
        \/ \E id \in I : ResumeBegin(c, id)
        \/ ResumeNotify(c)
        \/ ResumeRead(c)
        \/ ResumeFinish(c)

\* one session, two callers, no stop request
NextC == Concurrent({"s1"}, Callers) \/ WorkerUncancelled

SpecC == Init /\ [][NextC]_vars

\* one session, one caller at a time, two websockets
NextW == Control({"s1"}, {"c1"}) \/ Worker \/ Socket({"s1"}, Chans)

SpecW == Init /\ [][NextW]_vars

\* start and stop requests on sessions of one message
Sessions(I, C) ==
    \E c \in C :
        \/ \E id \in I : StartBegin(c, id, 1)
        \/ StartFinish(c)
        \/ \E id \in I : StopCall(c, id)

\* two sessions, one caller at a time, one websocket on the second session
NextI == Sessions(Ids, {"c1"}) \/ Worker \/ Socket({"s2"}, {"w1"})

SpecI == Init /\ [][NextI]_vars

\* the event loop runs every task that can resume
Fair == \A t \in TaskIds : WF_vars(Resumes(t) \/ WCancelled(t))

SpecF == Init /\ [][Next]_vars /\ Fair

\* the recovery path under the same scheduling
SpecRF == Init /\ [][NextR]_vars /\ Fair

\* ------------------------------------------------- properties
\* the indices a worker that started at cursor mi0 has to attempt
FullRun(r) == [i \in 1..(Len(r.msgs) - r.mi0) |-> r.mi0 + i - 1]

\* C1: pause/resume continuity.  Once pause(id) has succeeded and resume(id)
\* has been called afterwards (with no stop and no session-fatal error), the
\* worker goes on with the remaining queue: when its task has ended it has
\* attempted every index from its first cursor to len(queue)-1 exactly once,
\* in order.
C1_PauseResumeContinuity ==
    \A t \in TaskIds :
        (/\ tasks[t].pc = "done"
         /\ hist[tasks[t].sid].resumed
         /\ ~hist[tasks[t].sid].stopped
         /\ db[tasks[t].sid].last_error = "None")
        => tasks[t].att = FullRun(tasks[t])

\* C2: at every moment at most one automation worker task is running for a
\* given session id.
C2_OneWorkerPerSession ==
    \A id \in Ids : Cardinality(WorkersOf(id)) <= 1

\* C3: after a successful stop(id) of a session with a live worker, once the
\* worker task has ended the status is stopped in the live handle and in the
\* persisted record.
C3_StoppedStays ==
    \A t \in TaskIds :
        (tasks[t].stopd /\ tasks[t].pc = "done" /\ WorkersOf(tasks[t].sid) = {})
        => /\ live[tasks[t].sid].status = "stopped"
           /\ db[tasks[t].sid].status = "stopped"

\* C4: a worker's browser is closed at most once; a worker that was stopped
\* while it held a browser has closed it exactly once when its task has
\* ended; and once the worker has observed the stop it starts no dispatch
\* attempt, no typing and no Enter.
C4_StopClosesOnce ==
    \A t \in TaskIds :
        /\ tasks[t].closes <= 1
        /\ (tasks[t].stopd /\ tasks[t].pc = "done" /\ tasks[t].browser # "none")
           => tasks[t].closes = 1
        /\ ~tasks[t].late

C4_Witness ==
    \E t \in TaskIds :
        /\ tasks[t].stopd /\ tasks[t].obs /\ tasks[t].pc = "done"
        /\ tasks[t].closes = 1 /\ tasks[t].att # <<>>

\* a handler for `op` on `id` starts in this step / returns from its last await
Starts(c, op, id) ==
    /\ call[c].pc = "idle"
    /\ \/ call'[c].op = op /\ call'[c].id = id
       \/ resp'.c = c /\ resp'.op = op /\ resp'.id = id

Finishes(c, op, id) ==
    /\ call[c].op = op /\ call[c].id = id /\ call[c].pc = "notify"
    /\ call'[c].pc = "idle" /\ restarts' = restarts

Subscribed(id) == conn[id] # NoChan /\ chan[conn[id]].state = "open"

Update(id, status) == [ch |-> conn[id], sid |-> id, type |-> "session_update", status |-> status]

\* C5: retry(id) on a live session whose failed-message log is not empty
\* succeeds, empties the log, adds exactly 1 to retryCount and writes the new
\* retryCount and the empty log to the persisted record.
C5_RetryClearsAndCounts ==
    [][\A c \in Callers, id \in Ids :
         (Starts(c, "retry", id) /\ live[id].exists /\ live[id].failed_messages # <<>>)
         => /\ call'[c].pc = "notify"
            /\ live'[id].failed_messages = <<>>
            /\ live'[id].retry_count = live[id].retry_count + 1
            /\ db'[id].retry_count = live'[id].retry_count
            /\ db'[id].failed_messages = <<>>]_vars

PrecondErrors == {"not_found", "not_running", "not_paused", "not_resumable", "no_failed"}

\* C6: a control call whose precondition does not hold returns an error and
\* leaves the live handles, the persisted records, the worker tasks and the
\* subscriber registrations unchanged, and publishes no event.
C6_RejectedCallChangesNothing ==
    [][resp'.result \in PrecondErrors
       => /\ UNCHANGED <<db, live, tasks, conn, chan>>
          /\ delivered' = <<>>]_vars

C6_Witness ==
    /\ resp.op = "retry" /\ resp.result = "no_failed"
    /\ live[resp.id].exists /\ live[resp.id].retry_count = 1
    /\ conn[resp.id] # NoChan

\* C7: whenever a session's status is completed, its currentMessageIndex
\* equals the length of its message queue.
C7_CompletedAtEnd ==
    \A id \in Ids :
        (db[id].exists /\ View(id).status = "completed")
        => View(id).current_message_index = Len(db[id].messages)

\* C8: pause(id) succeeds exactly when the live handle's status is running;
\* on success the live status is paused, the record has status paused,
\* can_resume and paused_at, and a session_update with status paused goes to
\* the session's subscriber.
C8_Pause ==
    [][\A c \in Callers, id \in Ids :
         /\ Starts(c, "pause", id)
            => /\ (call'[c].pc = "notify") <=> (live[id].exists /\ live[id].status = "running")
               /\ call'[c].pc = "notify"
                  => /\ live'[id].status = "paused"
                     /\ db'[id].status = "paused"
                     /\ db'[id].can_resume
                     /\ db'[id].paused_at
               /\ call'[c].pc # "notify" => resp'.result \in {"not_found", "not_running"}
         /\ Finishes(c, "pause", id)
            => /\ resp' = [c |-> c, op |-> "pause", id |-> id, result |-> "ok"]
               /\ Subscribed(id) => delivered' = <<Update(id, "paused")>>]_vars

C8_Witness ==
    /\ resp.op = "pause" /\ resp.result = "ok"
    /\ delivered # <<>> /\ delivered[1].status = "paused"
    /\ db[resp.id].paused_at /\ live[resp.id].status = "paused"

C10_ResumeLive ==
    [][\A c \in Callers, id \in Ids :
         /\ (Starts(c, "resume", id) /\ live[id].exists)
            => /\ (call'[c].pc = "notify") <=> (live[id].status = "paused")
               /\ call'[c].pc = "notify"
                  => /\ live'[id].status = "running"
                     /\ db'[id].status = "running"
                     /\ db'[id].resumed_at
               /\ call'[c].pc # "notify" => resp'.result = "not_paused"
         /\ Finishes(c, "resume", id)
            => /\ resp' = [c |-> c, op |-> "resume", id |-> id, result |-> "ok"]
               /\ Subscribed(id) => delivered' = <<Update(id, "running")>>]_vars

C10_Witness ==
    /\ resp.op = "resume" /\ resp.result = "ok"
    /\ delivered # <<>> /\ delivered[1].status = "running"
    /\ db[resp.id].resumed_at /\ live[resp.id].status = "running"

\* C11: a session that a fatal failure left in status error with
\* can_resume = true, and whose worker has ended, can be resumed: resume(id)
\* is not rejected, also when the live handle of the failed run is still in
\* the registry.
C11_ErrorIsResumable ==
    [][\A c \in Callers, id \in Ids :
         (/\ Starts(c, "resume", id)
          /\ db[id].exists /\ db[id].status = "error" /\ db[id].can_resume
          /\ View(id).status = "error" /\ WorkersOf(id) = {})
         => resp'.result \notin PrecondErrors]_vars

\* the resume handler returns from the recovery path in this step
Recovers(c, id) ==
    /\ call[c].op = "resume" /\ call[c].id = id /\ call[c].pc = "found"
    /\ call'[c].pc = "idle" /\ restarts' = restarts

\* C12: recovery resume (requests processed one at a time; overlapping
\* resumes are C2's case).  A resume(id) that finds no live handle and a record
\* with can_resume = true registers a handle whose messages_sent,
\* messages_failed, current_message_index, failed_messages and retry_count are
\* the persisted ones and launches exactly one worker; otherwise it fails and
\* changes nothing.  The first dispatch attempt of a worker is the message at
\* the current_message_index of the session data it was launched with.
C12_RecoveryResume ==
    /\ [][\A c \in Callers, id \in Ids :
            Recovers(c, id) =>
              IF db[id].exists /\ db[id].can_resume
              THEN /\ resp'.result = "ok"
                   /\ live'[id].exists
                   /\ live'[id].messages_sent = db[id].messages_sent
                   /\ live'[id].messages_failed = db[id].messages_failed
                   /\ live'[id].current_message_index = db[id].current_message_index
                   /\ live'[id].failed_messages = db[id].failed_messages
                   /\ live'[id].retry_count = db[id].retry_count
                   /\ Cardinality({t \in TaskIds : tasks'[t].sid = id
                                     /\ tasks'[t].pc \notin {"free", "done"}}) = 1
                   /\ Cardinality({t \in TaskIds : tasks'[t] # tasks[t]}) = 1
              ELSE /\ resp'.result = "not_resumable"
                   /\ UNCHANGED <<db, live, tasks>>]_vars
    /\ [](\A t \in TaskIds :
            tasks[t].att # <<>> => tasks[t].att[1] = tasks[t].cur0)

C12_Witness ==
    \E t \in TaskIds :
        /\ restarts = 1 /\ tasks[t].cur0 = 1 /\ tasks[t].att # <<>>
        /\ live[tasks[t].sid].task = t

\* a step changes what the live handle of `id` says about the session
Changes(id) ==
    /\ live[id].exists /\ live'[id].exists
    /\ \/ live'[id].status # live[id].status
       \/ live'[id].messages_sent # live[id].messages_sent
       \/ live'[id].messages_failed # live[id].messages_failed
       \/ live'[id].failed_messages # live[id].failed_messages

\* the step leaves its handler or task at an await followed by a send to the
\* session's subscriber
WillPublish(id) ==
    \/ \E c \in Callers : call'[c].id = id /\ call'[c].pc = "notify"
    \/ \E t \in TaskIds : tasks'[t].sid = id /\ tasks'[t] # tasks[t] /\ tasks'[t].pc \in DbPcs

\* C13: every change of a session's status, counters or failed-message log,
\* by the worker or by a control call, is written to the persisted record in
\* the same step and is followed by a message to the session's subscriber.
C13_ChangesPersistedAndPublished ==
    [][\A id \in Ids :
         Changes(id) =>
           /\ db'[id].status = live'[id].status
           /\ db'[id].messages_sent = live'[id].messages_sent
           /\ db'[id].messages_failed = live'[id].messages_failed
           /\ db'[id].failed_messages = live'[id].failed_messages
           /\ WillPublish(id)]_vars

\* C14: start with an empty message list is rejected: no record is stored, no
\* handle is registered, no worker is launched.
C14_EmptyQueueRejected ==
    /\ \A id \in Ids : db[id].exists => db[id].messages # <<>>
    /\ \A id \in Ids : live[id].exists => db[id].messages # <<>>
    /\ \A t \in TaskIds : Alive(t) => tasks[t].msgs # <<>>

\* C15: a worker that acquired a browser closes it exactly once on every exit
\* path (completion, login or input-ready timeout, unhandled exception,
\* cancellation), and does nothing with the browser after the close.
C15_BrowserReleasedOnce ==
    \A t \in TaskIds :
        /\ tasks[t].closes = (IF tasks[t].browser = "closed" THEN 1 ELSE 0)
        /\ (tasks[t].pc = "done" /\ tasks[t].browser # "none") => tasks[t].browser = "closed"
        /\ tasks[t].browser = "closed" => tasks[t].pc \in {"closing", "done"}

C15_Witness ==
    \E t \in TaskIds :
        /\ tasks[t].pc = "done" /\ tasks[t].browser = "closed" /\ tasks[t].closes = 1
        /\ ~tasks[t].stopd /\ tasks[t].ret = "out"
        /\ live[tasks[t].sid].status = "error"

\* C16: stop returns in one step, without waiting for the worker; under fair
\* scheduling of the worker, a stopped worker that holds a browser eventually
\* closes it, and a stopped worker's task eventually ends.
C16_StoppedWorkerEnds ==
    /\ [][\A c \in Callers, id \in Ids :
            (Starts(c, "stop", id) /\ live[id].exists)
            => /\ call'[c].pc = "idle"
               /\ resp'.result = "ok"
               /\ \A t \in TaskIds : tasks'[t].pc = tasks[t].pc]_vars
    /\ \A t \in TaskIds :
         /\ (tasks[t].stopd /\ tasks[t].browser = "open") ~> (tasks[t].closes = 1)
         /\ tasks[t].stopd ~> (tasks[t].pc = "done")

C16_Witness ==
    \E t \in TaskIds :
        /\ tasks[t].stopd /\ tasks[t].pc = "done" /\ tasks[t].browser = "closed"
        /\ tasks[t].mi > 0 /\ hist[tasks[t].sid].stopped

\* where a worker is before its wait for the message input has returned
BeforeReady ==
    {"created", "launch", "goto_home", "wfl_db", "wfl_ws", "login_wait",
     "goto_chan", "input_wait"}

\* C17: startup order.  While the worker bound to a live handle has not yet
\* seen the login marker, navigated to the channel and found the message
\* input, the handle's status is starting or waiting_for_login (or already
\* stopped), never running, and the worker has attempted no dispatch.  This
\* holds for workers launched by start and by recovery resume.
C17_StartupOrder ==
    \A id \in Ids :
        (/\ live[id].exists /\ live[id].task # NoTask
         /\ tasks[live[id].task].sid = id
         /\ tasks[live[id].task].pc \in BeforeReady)
        => /\ live[id].status \in {"starting", "waiting_for_login", "stopped"}
           /\ tasks[live[id].task].pc \in {"created", "launch", "goto_home"}
              => live[id].status # "waiting_for_login"
           /\ tasks[live[id].task].att = <<>>

\* C18: a login timeout, an input-ready timeout or an unhandled exception
\* puts the session in status error with can_resume and last_error, in the
\* live handle and in the record; the error is then published as a
\* session_update and as an error_notification; the worker attempts no
\* dispatch afterwards; and, unless the session is stopped, the status stays
\* error.
C18_FatalFailure ==
    /\ [][\A t \in TaskIds :
            LET id == tasks[t].sid IN
            /\ (tasks'[t].pc = "err_db" /\ tasks[t].pc # "err_db")
               => /\ tasks[t].pc \in {"login_wait", "input_wait", "exc_exit"}
                  /\ live'[id].status = "error" /\ live'[id].can_resume
                  /\ live'[id].last_error # "None"
                  /\ db'[id].status = "error" /\ db'[id].can_resume
                  /\ db'[id].last_error = live'[id].last_error
            /\ (tasks[t].pc = "err_db" /\ tasks'[t].pc = "err_ws" /\ Subscribed(id))
               => delivered' = <<Update(id, "error")>>
            /\ (tasks[t].pc = "err_ws" /\ tasks'[t].pc = "err_note" /\ Subscribed(id))
               => /\ Len(delivered') = 1
                  /\ delivered'[1].type = "error_notification"
                  /\ delivered'[1].sid = id
            /\ (Alive(t) /\ live[id].last_error # "None" /\ tasks'[t].sid = id)
               => tasks'[t].att = tasks[t].att]_vars
    /\ [](\A id \in Ids :
            (live[id].exists /\ live[id].last_error # "None" /\ ~hist[id].stopped)
            => /\ live[id].status = "error"
               /\ db[id].status = "error" /\ db[id].can_resume
               /\ db[id].last_error = live[id].last_error)

C18_Witness ==
    \E t \in TaskIds :
        /\ tasks[t].pc = "err_note" /\ tasks[t].att # <<>> /\ ~tasks[t].stopd
        /\ delivered # <<>> /\ delivered[1].type = "error_notification"
        /\ live[tasks[t].sid].status = "error" /\ db[tasks[t].sid].can_resume

\* C19: a failed dispatch of one message appends the message and its index to
\* the failed-message log, adds exactly 1 to messages_failed (live and
\* persisted) and leaves the status alone; an error_notification follows; after
\* the delay the loop attempts the next index if the session is still
\* running; and no index is attempted twice.
C19_DispatchFailure ==
    /\ [][\A t \in TaskIds :
            LET r == tasks[t] id == tasks[t].sid IN
            /\ (tasks'[t].pc = "fail_db" /\ r.pc # "fail_db")
               => /\ r.pc \in {"typing", "enter"}
                  /\ live'[id].failed_messages =
                        Append(live[id].failed_messages,
                               [message |-> r.msgs[r.mi + 1], index |-> r.mi])
                  /\ live'[id].messages_failed = live[id].messages_failed + 1
                  /\ db'[id].messages_failed = live'[id].messages_failed
                  /\ live'[id].status = live[id].status
                  /\ db'[id].status = db[id].status
                  /\ live'[id].messages_sent = live[id].messages_sent
            /\ (r.pc = "fail_ws" /\ tasks'[t].pc = "fail_note" /\ Subscribed(id))
               => /\ Len(delivered') = 1
                  /\ delivered'[1].type = "error_notification"
                  /\ delivered'[1].sid = id
            /\ (r.pc = "fail_note" /\ tasks'[t].pc # "fail_note" /\ ~r.cancel /\ restarts' = restarts)
               => tasks'[t].pc = "sleep"
            /\ (r.pc = "sleep" /\ tasks'[t].pc # "sleep" /\ ~r.cancel /\ restarts' = restarts
                /\ live[id].status = "running" /\ r.mi + 1 < Len(r.msgs))
               => tasks'[t].att = Append(r.att, r.mi + 1)]_vars
    /\ [](\A t \in TaskIds : \A i \in 1..(Len(tasks[t].att) - 1) :
            tasks[t].att[i + 1] = tasks[t].att[i] + 1)

C19_Witness ==
    \E t \in TaskIds :
        /\ tasks[t].att = <<0, 1>>
        /\ live[tasks[t].sid].failed_messages = <<[message |-> "A", index |-> 0]>>
        /\ live[tasks[t].sid].messages_failed = 1
        /\ live[tasks[t].sid].status = "running"

Terminal == {"completed", "stopped", "error"}

\* C20: completed, stopped and error are terminal: once the status on a live
\* handle is one of them, no step of a worker or of a control call changes
\* the status on that handle.
C20_TerminalStays ==
    [][\A id \in Ids :
         (live[id].exists /\ live'[id].exists /\ live[id].status \in Terminal)
         => live'[id].status = live[id].status]_vars

\* C21: the status of every session, in its live handle and in its persisted
\* record, is always one of idle, starting, waiting_for_login, running,
\* paused, stopped, error, completed.
C21_StatusInSet ==
    \A id \in Ids :
        /\ db[id].status \in Statuses
        /\ live[id].status \in Statuses
        /\ View(id).status \in Statuses

C21_Witness ==
    \E id \in Ids :
        /\ live[id].exists /\ live[id].status = "paused" /\ db[id].status = "paused"
        /\ hist[id].resumed

\* C22: 0 <= current_message_index <= len(messages) in every state, in the
\* live handle and in the persisted record.
C22_CursorInRange ==
    \A id \in Ids :
        /\ 0 <= db[id].current_message_index
        /\ db[id].current_message_index <= Len(db[id].messages)
        /\ live[id].exists =>
             /\ 0 <= live[id].current_message_index
             /\ live[id].current_message_index <= Len(db[id].messages)

C22_Witness ==
    \E id \in Ids :
        /\ live[id].exists /\ live[id].current_message_index = 1
        /\ db[id].current_message_index = 1 /\ Len(db[id].messages) = 2

\* C23: the status query answers not found for an id without a record; for a
\* known id it returns the record it read, with status, messages_sent and
\* messages_failed taken from the live handle when there is one.
C23_StatusQuery ==
    [][\A c \in Callers, id \in Ids :
         (/\ call[c].op = "status" /\ call[c].id = id /\ call[c].pc = "found"
          /\ call'[c].pc = "idle")
         => IF ~db[id].exists
            THEN resp'.result = "not_found"
            ELSE /\ resp' = [c |-> c, op |-> "status", id |-> id, result |-> "ok"]
                 /\ LET v == call'[c].snap IN
                    IF live[id].exists
                    THEN /\ v.status = live[id].status
                         /\ v.messages_sent = live[id].messages_sent
                         /\ v.messages_failed = live[id].messages_failed
                         /\ v = [call[c].snap EXCEPT !.status = v.status,
                                                     !.messages_sent = v.messages_sent,
                                                     !.messages_failed = v.messages_failed]
                    ELSE v = call[c].snap]_vars

C23_Witness ==
    \E c \in Callers :
        /\ resp.c = c /\ resp.op = "status" /\ resp.result = "ok"
        /\ call[c].snap.status = "running" /\ call[c].snap.messages_sent = 1
        /\ db[resp.id].messages_sent = 1
        /\ call[c].snap.current_message_index = 0 /\ db[resp.id].current_message_index = 1

\* no control call on `id` is between its awaits and no worker of `id` is
\* inside update_session_status
Settled(id) ==
    /\ \A c \in Callers : call[c].id # id
    /\ \A t \in TaskIds : (tasks[t].sid = id /\ Alive(t)) => tasks[t].pc \notin DbPcs

\* C24: whenever no control call and no worker update of a session is in
\* flight, the status in the persisted record equals the status in the live
\* handle.
C24_PersistedStatusIsLive ==
    \A id \in Ids :
        (live[id].exists /\ Settled(id)) => db[id].status = live[id].status

\* caller c has a request `op` on id suspended after its test of the status
Accepted(c, op, id) == call[c].op = op /\ call[c].id = id /\ call[c].pc = "notify"

\* caller c's request `op` on id runs its test of the status in this step
Tests(c, op, id) ==
    /\ CanCall(c) /\ live[id].exists
    /\ \/ call'[c].op = op /\ call'[c].id = id
       \/ resp'.c = c /\ resp'.op = op /\ resp'.id = id /\ resp # resp'

\* C25: pause and resume test and set the live status in one step: a pause is
\* accepted exactly when the status is running and leaves it paused, a resume
\* exactly when it is paused and leaves it running; so while an accepted pause
\* (resume) is still in flight and the status is as it left it, a second pause
\* (resume) on the id gets the not-running (not-paused) error.
C25_Serialized ==
    [][\A c \in Callers, id \in Ids :
         /\ Tests(c, "pause", id)
            => IF live[id].status = "running"
               THEN Accepted(c, "pause", id)' /\ live'[id].status = "paused"
               ELSE resp'.result = "not_running" /\ live' = live
         /\ Tests(c, "resume", id)
            => IF live[id].status = "paused"
               THEN Accepted(c, "resume", id)' /\ live'[id].status = "running"
               ELSE resp'.result = "not_paused" /\ live' = live
         /\ \A d \in Callers \ {c} :
               /\ (Accepted(d, "pause", id) /\ live[id].status = "paused"
                      /\ Tests(c, "pause", id))
                  => resp'.result = "not_running" /\ call'[c].pc = "idle"
               /\ (Accepted(d, "resume", id) /\ live[id].status = "running"
                      /\ Tests(c, "resume", id))
                  => resp'.result = "not_paused" /\ call'[c].pc = "idle"]_vars

C25_Witness ==
    \E c \in Callers, d \in Callers, id \in Ids :
        /\ c # d
        /\ Accepted(d, "pause", id) /\ live[id].status = "paused"
        /\ resp = [c |-> c, op |-> "pause", id |-> id, result |-> "not_running"]

\* C26: a handle that is in the registry stays in it: no step of a worker and
\* no control call takes it out.
C26_HandleStays ==
    [][\A id \in Ids : live[id].exists => live'[id].exists]_vars

C26_Witness ==
    \E id \in Ids, t \in TaskIds :
        /\ live[id].exists /\ live[id].task = t /\ tasks[t].pc = "done"
        /\ live[id].status = "stopped" /\ hist[id].stopped
        /\ resp.op = "stop" /\ resp.result = "ok"

\* websocket w is accepted for session id in this step
Subscribes(w, id) ==
    chan[w].state = "none" /\ chan'[w].state = "open" /\ chan'[w].sid = id

\* websocket w is open for session id and another one has taken its place
Replaced(w, id) ==
    chan[w].state = "open" /\ chan[w].sid = id /\ conn[id] \notin {w, NoChan}

\* C27: the hub has one registration per session id; a websocket accepted for
\* an id takes the registration from the one that had it, and every event
\* sent for the id from then on goes to the registered websocket and to no
\* other.
C27_OneChannel ==
    [][/\ \A w \in Chans, id \in Ids : Subscribes(w, id) => conn'[id] = w
       /\ \A i \in 1..Len(delivered') :
             /\ delivered'[i].ch = conn'[delivered'[i].sid]
             /\ \A w \in Chans, id \in Ids : Replaced(w, id)' => delivered'[i].ch # w]_vars

C27_Witness ==
    \E w \in Chans, id \in Ids :
        /\ Replaced(w, id)
        /\ delivered = <<[ch |-> conn[id], sid |-> id, type |-> "session_update", status |-> "running"]>>

\* C28: an event is delivered only to a websocket that is registered for the
\* id and open when the event is sent; otherwise it is dropped: the step that
\* sends it delivers nothing, and a websocket accepted later is sent
\* connection_established and nothing that was sent before.
C28_PublishOrDrop ==
    [][/\ \A i \in 1..Len(delivered') :
             LET m == delivered'[i] IN
             \/ Subscribes(m.ch, m.sid) /\ m.type = "connection_established"
             \/ conn[m.sid] = m.ch /\ chan[m.ch].state = "open"
       /\ \A w \in Chans, id \in Ids :
             Subscribes(w, id)
             => delivered' = <<[ch |-> w, sid |-> id, type |-> "connection_established", status |-> "-"]>>
       /\ \A c \in Callers, id \in Ids :
             (Accepted(c, "pause", id) /\ call'[c].pc = "idle" /\ ~SendDelivers(id))
             => delivered' = <<>>]_vars

C28_Witness ==
    \E c \in Callers, id \in Ids :
        /\ resp = [c |-> c, op |-> "pause", id |-> id, result |-> "ok"]
        /\ conn[id] = NoChan /\ delivered = <<>>
        /\ \E w \in Chans : chan[w].state = "closed" /\ chan[w].sid = id

\* C29: the first event a websocket is sent after it is accepted is
\* connection_established, and a ping it sends is answered with a pong to
\* that websocket.
C29_PingPong ==
    [][\A w \in Chans :
         /\ \A id \in Ids :
               Subscribes(w, id)
               => /\ delivered' # <<>>
                  /\ delivered'[1] = [ch |-> w, sid |-> id, type |-> "connection_established", status |-> "-"]
         /\ WsPing(w)
            => delivered' = <<[ch |-> w, sid |-> chan[w].sid, type |-> "pong", status |-> "-"]>>]_vars

\* C30: a worker sets status completed only when it has attempted every
\* index from its first cursor to len(queue)-1; a pause or a stop that it
\* finds at the head of the loop does not end in completed.
C30_CompletedOnlyWhenExhausted ==
    [][\A t \in TaskIds :
         (tasks[t].pc # "comp_db" /\ tasks'[t].pc = "comp_db")
         => /\ tasks'[t].att = FullRun(tasks[t])
            /\ live[tasks[t].sid].status \notin {"paused", "stopped"}]_vars

\* C31: a status of paused changes only by a resume call, to running, or by
\* a stop call, to stopped; no step of the worker replaces it.
C31_PausedUntilResumeOrStop ==
    [][\A id \in Ids :
         (live[id].exists /\ live[id].status = "paused" /\ live'[id].exists
            /\ live'[id].status # "paused")
         => \/ /\ live'[id].status = "running"
               /\ \E c \in Callers : CanCall(c) /\ Accepted(c, "resume", id)'
            \/ /\ live'[id].status = "stopped"
               /\ resp'.op = "stop" /\ resp'.id = id /\ resp'.result = "ok"]_vars

\* C32: an attempt (the current-message update that precedes the typing)
\* begins only in a step that finds the live status running; none begins
\* while the status is paused or stopped.
C32_DispatchOnlyWhenRunning ==
    [][\A t \in TaskIds :
         (tasks[t].sid = tasks'[t].sid /\ Len(tasks'[t].att) > Len(tasks[t].att))
         => /\ live[tasks[t].sid].status = "running"
            /\ tasks'[t].pc = "cur_db"]_vars

C32_Witness ==
    \E t \in TaskIds :
        /\ tasks[t].pc = "comp_db" /\ hist[tasks[t].sid].paused
        /\ ~hist[tasks[t].sid].resumed /\ ~hist[tasks[t].sid].stopped
        /\ Len(tasks[t].msgs) = 2 /\ tasks[t].att = <<0>>

\* C33: within one run of a worker the messages are attempted in queue
\* order: the index never decreases, it advances by exactly one after each
\* attempt, sent or failed, and no index is attempted twice.
C33_QueueOrder ==
    /\ [](\A t \in TaskIds :
            /\ \A i \in 1..Len(tasks[t].att) : tasks[t].att[i] = tasks[t].mi0 + i - 1
            /\ Len(tasks[t].att) > 0 =>
                 tasks[t].mi \in {tasks[t].mi0 + Len(tasks[t].att) - 1,
                                  tasks[t].mi0 + Len(tasks[t].att)})
    /\ [][\A t \in TaskIds :
            (tasks[t].sid = tasks'[t].sid /\ tasks[t].sid # NoId)
            => /\ tasks'[t].mi \in {tasks[t].mi, tasks[t].mi + 1}
               /\ (tasks[t].pc = "sleep" /\ tasks'[t].pc # "sleep" /\ ~tasks[t].cancel)
                  => tasks'[t].mi = tasks[t].mi + 1
               /\ (live[tasks[t].sid].exists /\ live'[tasks[t].sid].exists)
                  => live'[tasks[t].sid].current_message_index
                       >= live[tasks[t].sid].current_message_index]_vars

C33_Witness ==
    \E t \in TaskIds :
        /\ tasks[t].att = <<0, 1>> /\ tasks[t].pc = "done"
        /\ live[tasks[t].sid].messages_failed = 1 /\ live[tasks[t].sid].messages_sent = 1

\* the attempts of session id that have ended, sent or failed
Counted(id) == live[id].messages_sent + live[id].messages_failed

\* C34: messages_sent and messages_failed of a live handle never decrease;
\* an attempt that ends adds exactly 1 to exactly one of them, messages_sent
\* when it was sent and messages_failed when it failed; no control call
\* changes them; and, no recovery resume being involved, their sum is at most
\* the length of the queue.
C34_Counters ==
    /\ [](\A id \in Ids : live[id].exists => Counted(id) <= Len(db[id].messages))
    /\ [][\A id \in Ids :
            (live[id].exists /\ live'[id].exists)
            => /\ live'[id].messages_sent >= live[id].messages_sent
               /\ live'[id].messages_failed >= live[id].messages_failed
               /\ Counted(id)' <= Counted(id) + 1
               /\ (call' # call \/ resp' # NoResp)
                  => /\ live'[id].messages_sent = live[id].messages_sent
                     /\ live'[id].messages_failed = live[id].messages_failed
               /\ \A t \in TaskIds :
                     (tasks[t].sid = id /\ tasks'[t].pc # tasks[t].pc)
                     => /\ tasks'[t].pc = "succ_db"
                           => /\ live'[id].messages_sent = live[id].messages_sent + 1
                              /\ live'[id].messages_failed = live[id].messages_failed
                        /\ tasks'[t].pc = "fail_db"
                           => /\ live'[id].messages_failed = live[id].messages_failed + 1
                              /\ live'[id].messages_sent = live[id].messages_sent
                        /\ tasks'[t].pc \notin {"succ_db", "fail_db"}
                           => Counted(id)' = Counted(id)]_vars

C34_Witness ==
    \E id \in Ids :
        /\ live[id].exists /\ Len(db[id].messages) = 2
        /\ live[id].messages_sent = 1 /\ live[id].messages_failed = 1
        /\ resp.op = "retry" /\ resp.id = id

\* a step of a retry request of caller c on session id
RetryStep(c, id) ==
    \/ CanCall(c) /\ call'[c].op = "retry" /\ call'[c].id = id
    \/ CanCall(c) /\ resp' # resp /\ resp'.c = c /\ resp'.op = "retry" /\ resp'.id = id
    \/ /\ call[c].op = "retry" /\ call[c].id = id /\ call'[c].pc = "idle"
       /\ resp'.c = c /\ resp'.op = "retry"

Untouched(id) ==
    /\ live'[id] = live[id] /\ db'[id] = db[id] /\ conn'[id] = conn[id]
    /\ \A t \in TaskIds : tasks[t].sid = id => tasks'[t] = tasks[t]
    /\ \A t \in TaskIds : tasks'[t].sid = id => tasks'[t] = tasks[t]

\* this step belongs to session id: a control call on it or a step of one of
\* its workers
StepOf(id) ==
    \/ \E c \in Callers : call'[c] # call[c] /\ id \in {call[c].id, call'[c].id}
    \/ resp' # resp /\ resp'.id = id
    \/ \E t \in TaskIds : tasks'[t] # tasks[t] /\ id \in {tasks[t].sid, tasks'[t].sid}

\* C36: a control call or a worker step of one session, a worker fault that
\* ends in error included, leaves the handle, the record, the tasks and the
\* registration of every other session as they were.
C36_Independent ==
    [][\A a \in Ids : StepOf(a) => \A b \in Ids \ {a} : Untouched(b)]_vars

C36_Witness ==
    \E a \in Ids, b \in Ids :
        /\ a # b
        /\ live[a].exists /\ live[a].status = "error" /\ db[a].status = "error"
        /\ live[b].exists /\ live[b].status = "running" /\ db[b].status = "running"
        /\ tasks[live[a].task].pc = "done" /\ tasks[live[b].task].pc = "typing"
        /\ conn[b] # NoChan

\* C37: when websocket B has taken the registration of a session from
\* websocket A, the end of A's handler leaves B registered, so that events
\* sent afterwards still reach B while it is open.
C37_DisconnectKeepsSuccessor ==
    [][\A a \in Chans, b \in Chans :
         LET id == chan[a].sid IN
         (/\ a # b /\ chan[a].state = "closed" /\ chan'[a].state = "none"
          /\ conn[id] = b /\ chan[b].state = "open" /\ chan[b].sid = id)
         => conn'[id] = b]_vars

\* C38: every call of the worker returning or raising in the end, a task
\* that was created ends (if the process does not end before it), whatever
\* control calls come in between; and when it ends the live status of its
\* session is completed, stopped or error.
C38_WorkerEnds ==
    /\ \A t \in TaskIds : (tasks[t].pc = "created") ~> (tasks[t].pc \in {"done", "free"})
    /\ [][\A t \in TaskIds :
            (tasks[t].pc # "done" /\ tasks'[t].pc = "done")
            => live'[tasks[t].sid].status \in Terminal]_vars

====
